---- MODULE Spec2Model ----
(***************************************************************************)
(* A model of ttsKOKORO.py: the text normalizer, the Piper synthesis call, *)
(* the optional ffmpeg transcoding, the /generate_speech, /setup and       *)
(* /preview_voice handlers and the /cleanup sweep over the audio directory.*)
(*                                                                         *)
(* Text is a sequence of one-character strings.  A path is a sequence of   *)
(* atoms (directory prefix, fixed name parts, the uuid token, the          *)
(* extension pieces), so that str.replace on a path can be computed.       *)
(***************************************************************************)
EXTENDS Integers, Sequences, FiniteSets, TLC

\* ------------------------------------------------------------------------
\* Character classes of the regular expressions (Python 3 str patterns)
\* ------------------------------------------------------------------------

\* \w of a str pattern is Unicode-aware.  Beyond ASCII it takes every
\* alphanumeric character; the texts of this model draw them from these:
\* e-acute, sharp s, feminine ordinal, superscript two, CJK U+4E2D and
\* the Arabic-Indic digit U+0661.  A character that cannot be written in a
\* string here is named by its code point.
UnicodeWordChars == { "é", "ß", "ª", "²", "<U+4E2D>", "<U+0661>" }

\* \w : letters, digits and the underscore
WordChars ==
  { "a","b","c","d","e","f","g","h","i","j","k","l","m","n","o","p","q","r",
    "s","t","u","v","w","x","y","z",
    "A","B","C","D","E","F","G","H","I","J","K","L","M","N","O","P","Q","R",
    "S","T","U","V","W","X","Y","Z",
    "0","1","2","3","4","5","6","7","8","9","_" }
    \cup UnicodeWordChars

\* \s of a str pattern, str.isspace and str.strip: the 29 Unicode whitespace
\* characters U+0009..U+000D, U+001C..U+0020, U+0085, U+00A0, U+1680,
\* U+2000..U+200A, U+2028, U+2029, U+202F, U+205F, U+3000
SpaceChars ==
  { "\t", "\n", "", "\f", "\r", "", "", "", "", " ", "", " ", " ",
    "<U+2000>", "<U+2001>", "<U+2002>", "<U+2003>", "<U+2004>", "<U+2005>",
    "<U+2006>", "<U+2007>", "<U+2008>", "<U+2009>", "<U+200A>", "<U+2028>",
    "<U+2029>", "<U+202F>", "<U+205F>", "<U+3000>" }

\* the punctuation kept by [^\w\s\.,!?;:\-\'"()]
KeptPunctuation == { ".", ",", "!", "?", ";", ":", "-", "'", "\"", "(", ")" }

\* the characters that end a sentence, '.!?'
TerminalPunctuation == { ".", "!", "?" }

\* the grave accent U+0060 cannot be written in a TLA+ string: this token
\* stands for that one character
Backtick == "<bq>"

IsDot(c) == c # "\n"          \* what '.' matches (no DOTALL flag)

MinOf(S) == CHOOSE x \in S : \A y \in S : x <= y

\* the literal lit occurs in s at position i
MatchAt(s, i, lit) ==
  /\ i >= 1
  /\ i + Len(lit) - 1 <= Len(s)
  /\ \A k \in 1..Len(lit) : s[i + k - 1] = lit[k]

\* the scan for where a match can begin: the first position at or after i
\* whose character is in C, or Len(s) + 1
NextIn(s, i, C) ==
  LET hits == { k \in i..Len(s) : s[k] \in C }
  IN IF hits = {} THEN Len(s) + 1 ELSE MinOf(hits)

\* every character of s[a..b] is matched by '.'
DotRun(s, a, b) == \A k \in a..b : IsDot(s[k])

\* ------------------------------------------------------------------------
\* re.sub(open(.+?)close, r'\1', s): leftmost match, lazy group, the scan
\* resumes after each match (used for the bold, italic and code markup)
\* ------------------------------------------------------------------------
RECURSIVE SubWrappedFrom(_, _, _, _)
SubWrappedFrom(s, i, open, close) ==
  IF i > Len(s) THEN << >>
  ELSE IF s[i] \notin { open[1] }
  THEN LET k == NextIn(s, i, { open[1] })
       IN SubSeq(s, i, k - 1) \o SubWrappedFrom(s, k, open, close)
  ELSE LET first == i + Len(open)
           ends  == { j \in (first + 1)..(Len(s) - Len(close) + 1) :
                        MatchAt(s, j, close) /\ DotRun(s, first, j - 1) }
       IN IF MatchAt(s, i, open) /\ ends # {}
          THEN LET j == MinOf(ends)
               IN SubSeq(s, first, j - 1)
                    \o SubWrappedFrom(s, j + Len(close), open, close)
          ELSE << s[i] >> \o SubWrappedFrom(s, i + 1, open, close)

SubBold(s)   == SubWrappedFrom(s, 1, << "*", "*" >>, << "*", "*" >>)
SubItalic(s) == SubWrappedFrom(s, 1, << "*" >>, << "*" >>)
SubCode(s)   == SubWrappedFrom(s, 1, << Backtick >>, << Backtick >>)

\* ------------------------------------------------------------------------
\* re.sub(r'##+\s*(.+)', r'\1', s): greedy hashes, greedy whitespace, then
\* the rest of the line; the engine gives back whitespace, then hashes,
\* until (.+) finds one character to start on
\* ------------------------------------------------------------------------
RECURSIVE RunLen(_, _, _)
RunLen(s, i, C) ==
  IF i <= Len(s) /\ s[i] \in C THEN 1 + RunLen(s, i + 1, C) ELSE 0

RECURSIVE LineEnd(_, _)
\* the last position of the run of '.'-matched characters starting at i
LineEnd(s, i) ==
  IF i + 1 <= Len(s) /\ IsDot(s[i + 1]) THEN LineEnd(s, i + 1) ELSE i

\* start of group 1 for a match at i, or 0 when there is no match at i
HeaderGroupStart(s, i) ==
  LET h == RunLen(s, i, { "#" })
      p == i + h
      w == RunLen(s, p, SpaceChars)
      starts == { q \in p..(p + w) : q <= Len(s) /\ IsDot(s[q]) }
  IN IF h < 2 THEN 0
     ELSE IF starts # {} THEN CHOOSE q \in starts : \A r \in starts : r <= q
     ELSE IF h >= 3 THEN p - 1
     ELSE 0

RECURSIVE SubHeaderFrom(_, _)
SubHeaderFrom(s, i) ==
  IF i > Len(s) THEN << >>
  ELSE IF s[i] \notin { "#" }
  THEN LET k == NextIn(s, i, { "#" })
       IN SubSeq(s, i, k - 1) \o SubHeaderFrom(s, k)
  ELSE LET g == HeaderGroupStart(s, i)
       IN IF g # 0
          THEN SubSeq(s, g, LineEnd(s, g)) \o SubHeaderFrom(s, LineEnd(s, g) + 1)
          ELSE << s[i] >> \o SubHeaderFrom(s, i + 1)

SubHeader(s) == SubHeaderFrom(s, 1)

\* ------------------------------------------------------------------------
\* re.sub(r'\[(.+?)\]\(.+?\)', r'\1', s)
\* ------------------------------------------------------------------------
\* positions k of a ')' closing a target that starts after the "](" at j
LinkCloses(s, j) ==
  { k \in (j + 3)..Len(s) : s[k] = ")" /\ DotRun(s, j + 2, k - 1) }

RECURSIVE SubLinkFrom(_, _)
SubLinkFrom(s, i) ==
  IF i > Len(s) THEN << >>
  ELSE IF s[i] \notin { "[" }
  THEN LET k == NextIn(s, i, { "[" })
       IN SubSeq(s, i, k - 1) \o SubLinkFrom(s, k)
  ELSE LET mids == { j \in (i + 2)..Len(s) :
                       /\ MatchAt(s, j, << "]", "(" >>)
                       /\ DotRun(s, i + 1, j - 1)
                       /\ LinkCloses(s, j) # {} }
       IN IF s[i] = "[" /\ mids # {}
          THEN LET j == MinOf(mids)
                   k == MinOf(LinkCloses(s, j))
               IN SubSeq(s, i + 1, j - 1) \o SubLinkFrom(s, k + 1)
          ELSE << s[i] >> \o SubLinkFrom(s, i + 1)

SubLink(s) == SubLinkFrom(s, 1)

\* ------------------------------------------------------------------------
\* re.sub(r'https?://\S+', '', s)
\* ------------------------------------------------------------------------
\* position of the first character of \S+ for a match at i, or 0
UrlBodyStart(s, i) ==
  LET https == << "h", "t", "t", "p", "s", ":", "/", "/" >>
      http  == << "h", "t", "t", "p", ":", "/", "/" >>
      NonSpaceAt(q) == q <= Len(s) /\ s[q] \notin SpaceChars
  IN IF MatchAt(s, i, https) /\ NonSpaceAt(i + 8) THEN i + 8
     ELSE IF MatchAt(s, i, http) /\ NonSpaceAt(i + 7) THEN i + 7
     ELSE 0

RECURSIVE NonSpaceEnd(_, _)
NonSpaceEnd(s, i) ==
  IF i + 1 <= Len(s) /\ s[i + 1] \notin SpaceChars
  THEN NonSpaceEnd(s, i + 1) ELSE i

RECURSIVE SubUrlFrom(_, _)
SubUrlFrom(s, i) ==
  IF i > Len(s) THEN << >>
  ELSE IF s[i] \notin { "h" }
  THEN LET k == NextIn(s, i, { "h" })
       IN SubSeq(s, i, k - 1) \o SubUrlFrom(s, k)
  ELSE LET b == UrlBodyStart(s, i)
       IN IF b # 0 THEN SubUrlFrom(s, NonSpaceEnd(s, b) + 1)
          ELSE << s[i] >> \o SubUrlFrom(s, i + 1)

SubUrl(s) == SubUrlFrom(s, 1)

\* ------------------------------------------------------------------------
\* re.sub(r'\bDr\.', 'Doctor', s)
\* ------------------------------------------------------------------------
Doctor == << "D", "o", "c", "t", "o", "r" >>

RECURSIVE SubDrFrom(_, _)
SubDrFrom(s, i) ==
  IF i > Len(s) THEN << >>
  ELSE IF s[i] \notin { "D" }
  THEN LET k == NextIn(s, i, { "D" })
       IN SubSeq(s, i, k - 1) \o SubDrFrom(s, k)
  ELSE IF /\ MatchAt(s, i, << "D", "r", "." >>)
          /\ (i = 1 \/ s[i - 1] \notin WordChars)
       THEN Doctor \o SubDrFrom(s, i + 3)
       ELSE << s[i] >> \o SubDrFrom(s, i + 1)

SubDr(s) == SubDrFrom(s, 1)

\* ------------------------------------------------------------------------
\* the character filter, newline replacement, whitespace collapse, strip
\* ------------------------------------------------------------------------
IsKept(c) == c \in WordChars \/ c \in SpaceChars \/ c \in KeptPunctuation

RemoveSpecial(s) == SelectSeq(s, IsKept)

ReplaceNewlines(s) == [ k \in 1..Len(s) |-> IF s[k] = "\n" THEN " " ELSE s[k] ]

RECURSIVE CollapseFrom(_, _)
\* re.sub(r'\s+', ' ', s)
CollapseFrom(s, i) ==
  IF i > Len(s) THEN << >>
  ELSE IF s[i] \in SpaceChars
       THEN << " " >> \o CollapseFrom(s, i + RunLen(s, i, SpaceChars))
       ELSE LET k == NextIn(s, i, SpaceChars)
            IN SubSeq(s, i, k - 1) \o CollapseFrom(s, k)

\* str.strip()
Strip(s) ==
  LET keep == { k \in 1..Len(s) : s[k] \notin SpaceChars }
  IN IF keep = {} THEN << >>
     ELSE SubSeq(s, MinOf(keep), CHOOSE k \in keep : \A m \in keep : m <= k)

EnsureTerminal(s) ==
  IF s # << >> /\ s[Len(s)] \notin TerminalPunctuation
  THEN Append(s, ".") ELSE s

clean_text_for_speech(text) ==
  IF text = << >> THEN << >>
  ELSE EnsureTerminal(
         Strip(CollapseFrom(ReplaceNewlines(RemoveSpecial(
           SubDr(SubUrl(SubLink(SubHeader(SubCode(SubItalic(SubBold(text)))))))
         )), 1)))

\* ------------------------------------------------------------------------
\* str helpers used by the handlers
\* ------------------------------------------------------------------------
\* "not text.strip()" / "not text": the string is blank / empty
IsBlank(text) == Strip(text) = << >>

RECURSIVE StrReplaceFrom(_, _, _, _)
\* s.replace(old, new): every non-overlapping occurrence, left to right
StrReplaceFrom(s, i, old, new) ==
  IF i > Len(s) THEN << >>
  ELSE IF MatchAt(s, i, old)
       THEN new \o StrReplaceFrom(s, i + Len(old), old, new)
       ELSE << s[i] >> \o StrReplaceFrom(s, i + 1, old, new)

StrReplace(s, old, new) == StrReplaceFrom(s, 1, old, new)

\* os.path.join(a, b): an absolute b discards a, an empty a adds nothing
OsPathJoin(a, b) ==
  IF b # << >> /\ b[1] = "/" THEN b
  ELSE IF a = << >> \/ a[Len(a)] = "/" THEN a \o b
  ELSE a \o << "/" >> \o b

\* os.path.basename(p): what follows the last separator
OsPathBasename(p) ==
  LET seps == { k \in 1..Len(p) : p[k] = "/" }
  IN IF seps = {} THEN p
     ELSE SubSeq(p, (CHOOSE k \in seps : \A m \in seps : m <= k) + 1, Len(p))

\* ------------------------------------------------------------------------
\* Module-level configuration
\* ------------------------------------------------------------------------
Cwd == << "cwd" >>                                   \* os.getcwd()
piper_exe == << "piper.exe" >>
voices_directory == OsPathJoin(Cwd, << "voices" >>)
AUDIO_DIR == OsPathJoin(OsPathJoin(Cwd, << "static" >>), << "audio" >>)

\* the retention of /cleanup, in seconds
RetentionSeconds == 3600

\* speeds are carried in tenths: 10 is the speed 1.0
SpeedUnit == 10

\* ------------------------------------------------------------------------
\* Bounds and input sets
\* ------------------------------------------------------------------------
MaxThreads  == 2      \* request threads of the threaded server
MaxTextLen  == 2      \* raw texts: every string over TextAlphabet up to this
MaxSweeps   == 2      \* /cleanup requests served
MaxTicks    == 1      \* clock advances, of TickSeconds each
MaxNormLen  == 4      \* texts normalized twice: every string up to this

Threads  == 1..MaxThreads
Sweepers == 1..MaxSweeps

TextAlphabet == { "a", " ", "@" }

RECURSIVE StringsUpTo(_)
StringsUpTo(n) ==
  IF n = 0 THEN { << >> }
  ELSE LET shorter == StringsUpTo(n - 1)
       IN shorter \cup { Append(w, c) : w \in shorter, c \in TextAlphabet }

SampleTexts ==
  { << "h","t","t","p",":","/","/","a" >>,
    << "D","r","."," ","*","*","a","*","*" >>,
    << "é" >>,
    << "\f" >>,
    << "é","D","r","." >> }

Texts == StringsUpTo(MaxTextLen) \cup SampleTexts

\* texts handed to clean_text_for_speech directly: a title, the dot that
\* follows it, a character the filter removes, and a space
NormAlphabet == { "D", "r", ".", "@", " " }

RECURSIVE NormStringsUpTo(_)
NormStringsUpTo(n) ==
  IF n = 0 THEN { << >> }
  ELSE LET shorter == NormStringsUpTo(n - 1)
       IN shorter \cup { Append(w, c) : w \in shorter, c \in NormAlphabet }

NormTexts == NormStringsUpTo(MaxNormLen)

\* the voices/ directory holds this one model file
InstalledVoice == << "en_us_test.onnx" >>
VoiceFiles == { OsPathJoin(voices_directory, InstalledVoice) }

\* a voice id that leaves the voices/ directory and names the engine
EngineAsVoice == << "..", "/" >> \o piper_exe

\* data.get('voice'): absent, or <<scheme prefix, voice id>>
VoiceInputs ==
  { << >>,
    << "piper:", InstalledVoice >>,
    << "piper:", << "missing.onnx" >> >>,
    << "piper:", << >> >>,
    << "piper:", EngineAsVoice >>,
    << "coqui:", InstalledVoice >> }

\* the 'speed' of a request body: the key is absent; or it holds a string
\* float() cannot parse (ValueError); or a value that is neither a string
\* nor a number, such as JSON null (TypeError); or a number (in tenths);
\* or an integer too large for a float, such as 10**400 (OverflowError),
\* whose value is not kept
NoSpeed ==
  [ given |-> FALSE, numeric |-> FALSE, string |-> FALSE, overflow |-> FALSE,
    value |-> 0 ]

NotANumber ==
  [ given |-> TRUE, numeric |-> FALSE, string |-> TRUE, overflow |-> FALSE,
    value |-> 0 ]

NullSpeed ==
  [ given |-> TRUE, numeric |-> FALSE, string |-> FALSE, overflow |-> FALSE,
    value |-> 0 ]

SpeedOf(v) ==
  [ given |-> TRUE, numeric |-> TRUE, string |-> FALSE, overflow |-> FALSE,
    value |-> v ]

HugeSpeed ==
  [ given |-> TRUE, numeric |-> TRUE, string |-> FALSE, overflow |-> TRUE,
    value |-> 0 ]

Speeds ==
  { NoSpeed, NotANumber, NullSpeed, HugeSpeed }
    \cup { SpeedOf(v) : v \in { 0 - 10, 0, 10, 20 } }

\* data.get('output_format', 'wav'): any string the client sends
Formats == { << "wav" >>, << "mp3" >>, << "ogg" >>, << "mkv" >> }

\* request.json of /generate_speech when the body is {}
EmptyBody ==
  [ empty |-> TRUE, text |-> << >>, voice |-> << >>, speed |-> NoSpeed,
    output_format |-> << "wav" >> ]

Requests ==
  [ empty : { FALSE }, text : Texts, voice : VoiceInputs, speed : Speeds,
    output_format : Formats ]
    \cup { EmptyBody }

\* requests that pass every input test of the pipeline
PlainRequests ==
  [ empty : { FALSE }, text : { << "a" >> },
    voice : { << "piper:", InstalledVoice >> },
    speed : { SpeedOf(SpeedUnit) }, output_format : { << "wav" >>, << "mp3" >> } ]

SetupSpeeds ==
  { NoSpeed, NotANumber, NullSpeed, HugeSpeed }
    \cup { SpeedOf(v) : v \in { 5, 20 } }

\* request.json of /setup when the body is {}
EmptySetup == [ empty |-> TRUE, voice |-> << >>, speed |-> NoSpeed ]

SetupRequests ==
  [ empty : { FALSE }, voice : VoiceInputs, speed : SetupSpeeds ]
    \cup { EmptySetup }

\* data.get('voice_id') of /preview_voice: absent, or a string, with or
\* without the 'piper:' prefix
PreviewVoices ==
  { << >>,
    << "piper:" >> \o InstalledVoice,
    InstalledVoice,
    << "piper:", "missing.onnx" >> }

\* data.get('sample_text', ...): has_text tells that the key is present
PreviewRequests ==
  [ voice_id : PreviewVoices, has_text : { TRUE },
    sample_text : { << >>, << "a" >> } ]
    \cup [ voice_id : PreviewVoices, has_text : { FALSE }, sample_text : { << >> } ]

\* two requests for the same voice with different texts, sent together
PlainPairs ==
  LET sent == [ empty : { FALSE }, text : { << "a" >> },
                voice : { << "piper:", InstalledVoice >> },
                speed : { SpeedOf(SpeedUnit) }, output_format : Formats ]
  IN { << r1, [ r2 EXCEPT !.text = << "a", "a" >> ] >> :
         r1 \in sent, r2 \in sent }

\* uuid4().hex values
Tokens == { "u1", "u2", "u3", "u4" }

VARIABLES
  inbox,       \* HTTP /generate_speech requests not yet picked up
  hnd,         \* per request thread: position and locals of generate_speech
  swp,         \* per /cleanup request: position and locals of cleanup
  fs,          \* AUDIO_DIR: file name -> [kind, mtime, data]
  tmp,         \* temporary text files: owner thread -> content
  now,         \* time.time()
  usedTokens,  \* uuid4 values already drawn
  env,         \* [piper: piper.exe exists, ffmpeg: the ffmpeg module imported]
  ticks,       \* clock advances so far
  cleanups,    \* HTTP /cleanup requests not yet picked up
  norm,        \* a caller of clean_text_for_speech: its text and results
  voice_speed, \* the module-level voice_speed
  setupbox,    \* HTTP /setup requests not yet picked up
  previewbox   \* HTTP /preview_voice requests not yet picked up

vars == << inbox, hnd, swp, fs, tmp, now, usedTokens, env, ticks, cleanups,
           norm, voice_speed, setupbox, previewbox >>

\* ------------------------------------------------------------------------
\* Paths and directory entries
\* ------------------------------------------------------------------------
NoPath == << >>                     \* None, where a path is expected

\* a variant that gives every call the same name
OutputFilenameFixed(token) == << "piper_speech_", "speech", ".", "wav" >>

\* f"piper_speech_{uuid.uuid4().hex}.wav"
OutputFilename(token) == << "piper_speech_", token, ".", "wav" >>

\* os.path.join(AUDIO_DIR, output_filename)
OutputPath(token) == OsPathJoin(AUDIO_DIR, OutputFilename(token))

\* f"/static/audio/{output_filename}"
StaticUrl(filename) == << "/", "static", "/", "audio", "/" >> \o filename

\* os.path.join(os.getcwd(), audio_path[1:])
LocalPath(audio_path) == OsPathJoin(Cwd, Tail(audio_path))

\* os.path.join(voices_directory, voice_file)
VoiceModelPath(voice_file) == OsPathJoin(voices_directory, voice_file)

\* wav_path.replace('.wav', f'.{output_format}')
ConvertedPath(wav_path, output_format) ==
  StrReplace(wav_path, << ".", "wav" >>, << "." >> \o output_format)

\* 'libmp3lame' if output_format == 'mp3' else 'libvorbis'
Codec(output_format) ==
  IF output_format = << "mp3" >> THEN "libmp3lame" ELSE "libvorbis"

Exists(path) == path \in DOMAIN fs                 \* os.path.exists, in AUDIO_DIR
IsFile(path) == Exists(path) /\ fs[path].kind = "file"      \* os.path.isfile

\* the directory with one entry added or replaced
WriteFile(dir, path, entry) ==
  [ q \in DOMAIN dir \cup { path } |-> IF q = path THEN entry ELSE dir[q] ]

\* the directory without one entry
RemoveFile(dir, path) == [ q \in DOMAIN dir \ { path } |-> dir[q] ]

\* the temporary files without the one of thread t (os.unlink, OSError passed)
Unlink(t) == [ q \in DOMAIN tmp \ { t } |-> tmp[q] ]

\* ------------------------------------------------------------------------
\* /generate_speech: one thread per request
\* ------------------------------------------------------------------------
NoResponse == [ success |-> FALSE, audioPath |-> NoPath, error |-> "pending" ]

Failure(msg) == [ success |-> FALSE, audioPath |-> NoPath, error |-> msg ]

Success(path) == [ success |-> TRUE, audioPath |-> path, error |-> "" ]

\* spawned, output_seen and transcode are history: whether subprocess.run
\* started the engine, what os.path.exists said of the output file, and how
\* the transcoder ended.  route is the Flask route the thread serves; for
\* /setup, sent_speed is the 'speed' of the request, called tells that
\* generate_speech_piper was called, echoed is the 'speed' of the response.
\* written is history too: the paths the engine and the transcoder run for
\* this thread wrote to
IdleHandler ==
  [ pc |-> "idle", text |-> << >>, voice_data |-> << >>,
    output_format |-> << >>, speed |-> SpeedUnit, voice_id |-> << >>,
    cleaned |-> << >>, token |-> "", length_scale |-> << 0, 1 >>,
    command |-> << >>, spawned |-> FALSE, returncode |-> 0 - 1,
    output_seen |-> FALSE, audio_path |-> NoPath, transcode |-> "none",
    converted |-> NoPath,
    response |-> NoResponse,
    route |-> "", sent_speed |-> NoSpeed, called |-> FALSE,
    echoed |-> 0 - 1, written |-> { } ]

\* float(data.get('speed', 1.0)) raises: ValueError on a string that is no
\* number, TypeError on a value that is neither a string nor a number,
\* OverflowError on an integer too large for a float
FloatRaisesValueError(speed) == speed.given /\ ~speed.numeric /\ speed.string

FloatRaisesTypeError(speed) == speed.given /\ ~speed.numeric /\ ~speed.string

FloatRaisesOverflowError(speed) ==
  speed.given /\ speed.numeric /\ speed.overflow

FloatRaises(speed) ==
  \/ FloatRaisesValueError(speed)
  \/ FloatRaisesTypeError(speed)
  \/ FloatRaisesOverflowError(speed)

\* str(e) of the exception float() raised
FloatError(speed) ==
  IF FloatRaisesTypeError(speed)
  THEN "float() argument must be a string or a real number"
  ELSE IF FloatRaisesOverflowError(speed)
  THEN "int too large to convert to float"
  ELSE "could not convert string to float"

FloatOf(speed) == IF speed.given THEN speed.value ELSE SpeedUnit

\* generate_speech, up to the call of generate_speech_piper; the server hands
\* the request to a new thread (the lowest free one)
Receive(t) ==
  /\ hnd[t].pc = "idle"
  /\ \A u \in Threads : u < t => hnd[u].pc # "idle"
  /\ inbox # << >>
  /\ LET data == Head(inbox)
         got  == [ hnd[t] EXCEPT !.route = "generate_speech",
                                 !.text = data.text,
                                 !.voice_data = data.voice,
                                 !.output_format = data.output_format ]
     IN /\ inbox' = Tail(inbox)
        /\ hnd' =
             [ hnd EXCEPT ![t] =
                 IF data.empty
                 THEN [ got EXCEPT !.pc = "done",
                                   !.response = Failure("No data provided") ]
                 ELSE IF data.text = << >> \/ data.voice = << >>
                 THEN [ got EXCEPT !.pc = "done",
                                   !.response = Failure("Missing text or voice") ]
                 ELSE IF data.voice[1] # "piper:"
                 THEN [ got EXCEPT !.pc = "done",
                          !.response = Failure("Only Piper voices are supported") ]
                 ELSE IF FloatRaises(data.speed)
                 THEN [ got EXCEPT !.pc = "done",
                                   !.voice_id = data.voice[2],
                                   !.response = Failure(FloatError(data.speed)) ]
                 ELSE [ got EXCEPT !.pc = "piper_guard",
                                   !.voice_id = data.voice[2],
                                   !.speed = FloatOf(data.speed) ] ]
  /\ UNCHANGED << swp, fs, tmp, now, usedTokens, env, ticks, cleanups,
                  norm, voice_speed, setupbox, previewbox >>

\* generate_speech_piper returns: the handler resumes with its result
PiperReturn(h, path) ==
  [ h EXCEPT !.pc = IF h.route = "setup" THEN "setup_after"
                    ELSE IF h.route = "preview_voice" THEN "preview_after"
                    ELSE "after_piper",
             !.audio_path = path ]

\* the entry test, then normalisation, the output name and the temp file
GuardPasses(text, voice_file) == ~IsBlank(text) /\ voice_file # << >>

PiperGuard(t) ==
  /\ hnd[t].pc = "piper_guard"
  /\ IF ~GuardPasses(hnd[t].text, hnd[t].voice_id)
     THEN /\ hnd' = [ hnd EXCEPT ![t] = PiperReturn(@, NoPath) ]
          /\ UNCHANGED << tmp, usedTokens, cleanups >>
     ELSE \E token \in Tokens \ usedTokens :
            LET text == clean_text_for_speech(hnd[t].text)
            IN /\ hnd' = [ hnd EXCEPT ![t] = [ @ EXCEPT !.pc = "check_voice",
                                                       !.cleaned = text,
                                                       !.token = token ] ]
               /\ usedTokens' = usedTokens \cup { token }
               /\ tmp' = [ q \in DOMAIN tmp \cup { t } |->
                             IF q = t THEN text ELSE tmp[q] ]
  /\ UNCHANGED << inbox, swp, fs, now, env, ticks, cleanups,
                  norm, voice_speed, setupbox, previewbox >>

\* the paths os.path.join(voices_directory, ...) can give that exist: the
\* model files, the directory itself (an empty voice id), and the engine
\* executable reached through the parent directory
ExistingVoicePaths ==
  VoiceFiles
    \cup { OsPathJoin(voices_directory, << >>) }
    \cup ( IF env.piper THEN { OsPathJoin(voices_directory, EngineAsVoice) }
           ELSE { } )

\* os.path.exists(os.path.join(voices_directory, voice_file))
VoiceFound(voice_file) == VoiceModelPath(voice_file) \in ExistingVoicePaths

CheckVoice(t) ==
  /\ hnd[t].pc = "check_voice"
  /\ IF ~VoiceFound(hnd[t].voice_id)
     THEN /\ tmp' = Unlink(t)
          /\ hnd' = [ hnd EXCEPT ![t] = PiperReturn(@, NoPath) ]
     ELSE /\ hnd' = [ hnd EXCEPT ![t].pc = "check_engine" ]
          /\ UNCHANGED tmp
  /\ UNCHANGED << inbox, swp, fs, now, usedTokens, env, ticks, cleanups,
                  norm, voice_speed, setupbox, previewbox >>

\* a variant that takes the executable for granted
EngineAssumed == TRUE

EngineFound == env.piper                            \* os.path.exists(piper_exe)

CheckEngine(t) ==
  /\ hnd[t].pc = "check_engine"
  /\ IF ~EngineFound
     THEN /\ tmp' = Unlink(t)
          /\ hnd' = [ hnd EXCEPT ![t] = PiperReturn(@, NoPath) ]
     ELSE /\ hnd' = [ hnd EXCEPT ![t].pc = "length_scale" ]
          /\ UNCHANGED tmp
  /\ UNCHANGED << inbox, swp, fs, now, usedTokens, env, ticks, cleanups,
                  norm, voice_speed, setupbox, previewbox >>

\* 1.0 / speed as the fraction << numerator, denominator >>
LengthScale(speed) == << SpeedUnit, speed >>

\* 1.0 / speed raises ZeroDivisionError
DivisionFault(speed) == speed = 0

PiperCommand(voice_file, token, speed) ==
  << piper_exe, "--model", VoiceModelPath(voice_file),
     "--output_file", OutputPath(token),
     "--length-scale", LengthScale(speed) >>

\* the division and the command line; a division fault lands in the
\* except clause, which only logs and returns None
ComputeLengthScale(t) ==
  /\ hnd[t].pc = "length_scale"
  /\ LET h == hnd[t]
     IN hnd' = [ hnd EXCEPT ![t] =
                   IF DivisionFault(h.speed) THEN PiperReturn(h, NoPath)
                   ELSE [ h EXCEPT !.pc = "run_piper",
                                   !.length_scale = LengthScale(h.speed),
                                   !.command = PiperCommand(h.voice_id, h.token,
                                                            h.speed) ] ]
  /\ UNCHANGED << inbox, swp, fs, tmp, now, usedTokens, env, ticks, cleanups,
                  norm, voice_speed, setupbox, previewbox >>

\* subprocess.run on the engine: it cannot be started (an exception); or
\* it runs and ends with an exit code, having written its output file or
\* not; or it runs and subprocess.run raises once it has ended, its output
\* not being UTF-8 (text=True, encoding="utf-8"), the exit code never seen
EngineOutcomes ==
  { [ raised |-> TRUE, ran |-> FALSE, returncode |-> 0 - 1, wrote |-> FALSE ] }
    \cup [ raised : { FALSE }, ran : { TRUE }, returncode : { 0, 1 },
           wrote : BOOLEAN ]
    \cup [ raised : { TRUE }, ran : { TRUE }, returncode : { 0 - 1 },
           wrote : BOOLEAN ]

RunPiper(t) ==
  /\ hnd[t].pc = "run_piper"
  /\ \E o \in EngineOutcomes :
       LET h    == hnd[t]
           path == OutputPath(h.token)
           ran  == [ h EXCEPT !.spawned = TRUE,
                              !.written = IF o.wrote THEN h.written \cup { path }
                                          ELSE h.written ]
       IN IF t \notin DOMAIN tmp \/ ~o.ran
          THEN /\ hnd' = [ hnd EXCEPT ![t] = PiperReturn(h, NoPath) ]
               /\ UNCHANGED fs
          ELSE /\ hnd' = [ hnd EXCEPT ![t] =
                             IF o.raised THEN PiperReturn(ran, NoPath)
                             ELSE [ ran EXCEPT !.pc = "unlink_temp",
                                               !.returncode = o.returncode ] ]
               /\ fs' = IF o.wrote
                        THEN WriteFile(fs, path,
                               [ kind |-> "file", mtime |-> now, data |-> "wav" ])
                        ELSE fs
  /\ UNCHANGED << inbox, swp, tmp, now, usedTokens, env, ticks, cleanups,
                  norm, voice_speed, setupbox, previewbox >>

UnlinkTemp(t) ==
  /\ hnd[t].pc = "unlink_temp"
  /\ tmp' = Unlink(t)
  /\ hnd' = [ hnd EXCEPT ![t].pc = "check_result" ]
  /\ UNCHANGED << inbox, swp, fs, now, usedTokens, env, ticks, cleanups,
                  norm, voice_speed, setupbox, previewbox >>

\* a variant that trusts the exit code alone
PiperSucceededExitOnly(returncode, output_exists) == returncode = 0

\* the result tests of generate_speech_piper
PiperSucceeded(returncode, output_exists) == returncode = 0 /\ output_exists

CheckResult(t) ==
  /\ hnd[t].pc = "check_result"
  /\ LET h    == hnd[t]
         seen == Exists(OutputPath(h.token))
     IN hnd' = [ hnd EXCEPT ![t] =
                   IF PiperSucceeded(h.returncode, seen)
                   THEN PiperReturn([ h EXCEPT !.output_seen = seen ],
                                    StaticUrl(OutputFilename(h.token)))
                   ELSE PiperReturn([ h EXCEPT !.output_seen = seen ], NoPath) ]
  /\ UNCHANGED << inbox, swp, fs, tmp, now, usedTokens, env, ticks, cleanups,
                  norm, voice_speed, setupbox, previewbox >>

\* generate_speech after the call: no audio
RespondFailure(t) ==
  /\ hnd[t].pc = "after_piper"
  /\ hnd[t].audio_path = NoPath
  /\ hnd' = [ hnd EXCEPT ![t] = [ @ EXCEPT !.pc = "done",
                          !.response = Failure("Failed to generate speech") ] ]
  /\ UNCHANGED << inbox, swp, fs, tmp, now, usedTokens, env, ticks, cleanups,
                  norm, voice_speed, setupbox, previewbox >>

\* generate_speech after the call: the WAV is what was asked for
RespondWav(t) ==
  /\ hnd[t].pc = "after_piper"
  /\ hnd[t].audio_path # NoPath
  /\ hnd[t].output_format = << "wav" >>
  /\ hnd' = [ hnd EXCEPT ![t] = [ hnd[t] EXCEPT !.pc = "done",
                                  !.response = Success(hnd[t].audio_path) ] ]
  /\ UNCHANGED << inbox, swp, fs, tmp, now, usedTokens, env, ticks, cleanups,
                  norm, voice_speed, setupbox, previewbox >>

\* subprocess.run(['ffmpeg', ...], check=True): ends with code 0, ends
\* nonzero (CalledProcessError), or cannot be run; when it ran it has written
\* its output file (all of it, or a part before a nonzero end) or nothing
TranscoderOutcomes ==
  [ how : { "ok", "nonzero" }, wrote : BOOLEAN ]
    \cup { [ how |-> "raised", wrote |-> FALSE ] }

\* a variant that does not look at how the transcoder ended
ConvertResultUnchecked(available, outcome, wav_path, output_format) ==
  IF ~available THEN NoPath ELSE ConvertedPath(wav_path, output_format)

\* convert_audio_format: the path of the converted file, or None
ConvertResult(available, outcome, wav_path, output_format) ==
  IF ~available THEN NoPath
  ELSE IF outcome = "ok" THEN ConvertedPath(wav_path, output_format)
  ELSE NoPath

ConvertAudio(t) ==
  /\ hnd[t].pc = "after_piper"
  /\ hnd[t].audio_path # NoPath
  /\ hnd[t].output_format # << "wav" >>
  /\ \E outcome \in TranscoderOutcomes :
       LET wav_path    == LocalPath(hnd[t].audio_path)
           how         == IF env.ffmpeg THEN outcome.how ELSE "unavailable"
           output_path == ConvertedPath(wav_path, hnd[t].output_format)
           wrote       == env.ffmpeg /\ outcome.wrote
           converted   == ConvertResult(env.ffmpeg, outcome.how, wav_path,
                                        hnd[t].output_format)
           h           == [ hnd[t] EXCEPT
                              !.transcode = how,
                              !.written = IF wrote THEN @ \cup { output_path }
                                          ELSE @ ]
       IN /\ fs' = IF wrote
                   THEN WriteFile(fs, output_path,
                          [ kind |-> "file", mtime |-> now,
                            data |-> IF outcome.how = "ok"
                                     THEN Codec(hnd[t].output_format)
                                     ELSE "part" ])
                   ELSE fs
          /\ hnd' = [ hnd EXCEPT ![t] =
                        IF converted # NoPath
                        THEN [ h EXCEPT !.pc = "remove_wav",
                                        !.converted = converted ]
                        ELSE [ h EXCEPT !.pc = "done",
                                 !.response = Success(hnd[t].audio_path) ] ]
  /\ UNCHANGED << inbox, swp, tmp, now, usedTokens, env, ticks, cleanups,
                  norm, voice_speed, setupbox, previewbox >>

\* os.remove of the original WAV (OSError passed), then the response
RemoveOriginal(t) ==
  /\ hnd[t].pc = "remove_wav"
  /\ LET wav_path == LocalPath(hnd[t].audio_path)
         served   == StaticUrl(OsPathBasename(hnd[t].converted))
     IN /\ fs' = IF Exists(wav_path) THEN RemoveFile(fs, wav_path) ELSE fs
        /\ hnd' = [ hnd EXCEPT ![t] = [ @ EXCEPT !.pc = "done",
                                                !.audio_path = served,
                                                !.response = Success(served) ] ]
  /\ UNCHANGED << inbox, swp, tmp, now, usedTokens, env, ticks, cleanups,
                  norm, voice_speed, setupbox, previewbox >>

HandlerStep(t) ==
  \/ Receive(t)
  \/ PiperGuard(t)
  \/ CheckVoice(t)
  \/ CheckEngine(t)
  \/ ComputeLengthScale(t)
  \/ RunPiper(t)
  \/ UnlinkTemp(t)
  \/ CheckResult(t)
  \/ RespondFailure(t)
  \/ RespondWav(t)
  \/ ConvertAudio(t)
  \/ RemoveOriginal(t)

\* ------------------------------------------------------------------------
\* /setup: select a voice and a speed, and speak a welcome
\* ------------------------------------------------------------------------
welcome_message ==
  << "H", "e", "l", "l", "o", "!", " ", "I", "'", "m", " ", "r", "e", "a",
     "d", "y", " ", "t", "o", " ", "p", "r", "o", "v", "i", "d", "e", " ",
     "h", "i", "g", "h", "-", "q", "u", "a", "l", "i", "t", "y", " ", "s",
     "p", "e", "e", "c", "h", " ", "s", "y", "n", "t", "h", "e", "s", "i",
     "s", " ", "u", "s", "i", "n", "g", " ", "P", "i", "p", "e", "r", "." >>

\* voice_speed after the inner try of setup, current being its value
\* before: the number float() returns, 1.0 when float() raises ValueError
\* (the except clause), and current when it raises TypeError or
\* OverflowError, which that clause does not catch, or when the body has no
\* 'speed'
ParsedSpeed(speed, current) ==
  IF \/ ~speed.given
     \/ FloatRaisesTypeError(speed)
     \/ FloatRaisesOverflowError(speed)
  THEN current
  ELSE IF FloatRaisesValueError(speed) THEN SpeedUnit
  ELSE speed.value

\* setup, up to the split of the voice: the input tests, and the store into
\* the module-level voice_speed when the request carries a speed.  A speed
\* on which float() raises TypeError or OverflowError leaves through the
\* outer except of setup: voice_speed keeps its value and the request is
\* answered a failure
SetupReceive(t) ==
  /\ hnd[t].pc = "idle"
  /\ \A u \in Threads : u < t => hnd[u].pc # "idle"
  /\ setupbox # << >>
  /\ LET data == Head(setupbox)
         got  == [ hnd[t] EXCEPT !.route = "setup",
                                 !.voice_data = data.voice,
                                 !.sent_speed = data.speed ]
     IN /\ setupbox' = Tail(setupbox)
        /\ IF data.empty
           THEN /\ hnd' = [ hnd EXCEPT ![t] =
                             [ got EXCEPT !.pc = "done",
                                          !.response = Failure("No data provided") ] ]
                /\ UNCHANGED voice_speed
           ELSE IF data.voice = << >>
           THEN /\ hnd' = [ hnd EXCEPT ![t] =
                             [ got EXCEPT !.pc = "done",
                                          !.response = Failure("No voice selected") ] ]
                /\ UNCHANGED voice_speed
           ELSE IF data.voice[1] # "piper:"
           THEN /\ hnd' = [ hnd EXCEPT ![t] =
                             [ got EXCEPT !.pc = "done",
                                 !.response =
                                    Failure("Only Piper voices are supported") ] ]
                /\ UNCHANGED voice_speed
           ELSE IF \/ FloatRaisesTypeError(data.speed)
                   \/ FloatRaisesOverflowError(data.speed)
           THEN /\ hnd' = [ hnd EXCEPT ![t] =
                             [ got EXCEPT !.pc = "done",
                                 !.response = Failure(FloatError(data.speed)) ] ]
                /\ UNCHANGED voice_speed
           ELSE /\ hnd' = [ hnd EXCEPT ![t] =
                             [ got EXCEPT !.pc = "setup_voice",
                                          !.voice_id = data.voice[2] ] ]
                /\ voice_speed' = ParsedSpeed(data.speed, voice_speed)
  /\ UNCHANGED << inbox, swp, fs, tmp, now, usedTokens, env, ticks, cleanups,
                  norm, previewbox >>

\* os.path.exists(os.path.join(voices_directory, voice_id))
SetupCheckVoice(t) ==
  /\ hnd[t].pc = "setup_voice"
  /\ hnd' = [ hnd EXCEPT ![t] =
               IF VoiceFound(hnd[t].voice_id)
               THEN [ hnd[t] EXCEPT !.pc = "setup_engine" ]
               ELSE [ hnd[t] EXCEPT !.pc = "done",
                                    !.response = Failure("Voice file not found") ] ]
  /\ UNCHANGED << inbox, swp, fs, tmp, now, usedTokens, env, ticks, cleanups,
                  norm, voice_speed, setupbox, previewbox >>

\* os.path.exists(piper_exe)
SetupCheckEngine(t) ==
  /\ hnd[t].pc = "setup_engine"
  /\ hnd' = [ hnd EXCEPT ![t] =
               IF EngineFound
               THEN [ hnd[t] EXCEPT !.pc = "setup_call" ]
               ELSE [ hnd[t] EXCEPT !.pc = "done",
                        !.response = Failure("Piper executable not found") ] ]
  /\ UNCHANGED << inbox, swp, fs, tmp, now, usedTokens, env, ticks, cleanups,
                  norm, voice_speed, setupbox, previewbox >>

\* generate_speech_piper(welcome_message, voice_id, voice_speed): the speed
\* argument is the module-level voice_speed as it is at the call
SetupCall(t) ==
  /\ hnd[t].pc = "setup_call"
  /\ hnd' = [ hnd EXCEPT ![t] = [ hnd[t] EXCEPT !.pc = "piper_guard",
                                                 !.text = welcome_message,
                                                 !.speed = voice_speed,
                                                 !.called = TRUE ] ]
  /\ UNCHANGED << inbox, swp, fs, tmp, now, usedTokens, env, ticks, cleanups,
                  norm, voice_speed, setupbox, previewbox >>

\* setup after the call: the response, whose 'speed' is the module-level
\* voice_speed as it is then
SetupRespond(t) ==
  /\ hnd[t].pc = "setup_after"
  /\ hnd' = [ hnd EXCEPT ![t] =
               IF hnd[t].audio_path # NoPath
               THEN [ hnd[t] EXCEPT !.pc = "done",
                                    !.echoed = voice_speed,
                                    !.response = Success(hnd[t].audio_path) ]
               ELSE [ hnd[t] EXCEPT !.pc = "done",
                        !.response =
                           Failure("Failed to generate welcome speech") ] ]
  /\ UNCHANGED << inbox, swp, fs, tmp, now, usedTokens, env, ticks, cleanups,
                  norm, voice_speed, setupbox, previewbox >>

SetupStep(t) ==
  \/ SetupReceive(t)
  \/ SetupCheckVoice(t)
  \/ SetupCheckEngine(t)
  \/ SetupCall(t)
  \/ PiperGuard(t)
  \/ CheckVoice(t)
  \/ CheckEngine(t)
  \/ ComputeLengthScale(t)
  \/ RunPiper(t)
  \/ UnlinkTemp(t)
  \/ CheckResult(t)
  \/ SetupRespond(t)

\* ------------------------------------------------------------------------
\* /preview_voice: a short sample of a voice, always at speed 1.0
\* ------------------------------------------------------------------------
default_sample_text ==
  << "H", "e", "l", "l", "o", "!", " ", "T", "h", "i", "s", " ", "i", "s",
     " ", "h", "o", "w", " ", "I", " ", "s", "o", "u", "n", "d", "." >>

\* preview_voice, up to the call of generate_speech_piper
PreviewReceive(t) ==
  /\ hnd[t].pc = "idle"
  /\ \A u \in Threads : u < t => hnd[u].pc # "idle"
  /\ previewbox # << >>
  /\ LET data        == Head(previewbox)
         sample_text == IF data.has_text THEN data.sample_text
                        ELSE default_sample_text
         got         == [ hnd[t] EXCEPT !.route = "preview_voice",
                                        !.voice_data = data.voice_id ]
     IN /\ previewbox' = Tail(previewbox)
        /\ hnd' =
             [ hnd EXCEPT ![t] =
                 IF data.voice_id = << >>
                 THEN [ got EXCEPT !.pc = "done",
                                   !.response = Failure("No voice_id provided") ]
                 ELSE [ got EXCEPT !.pc = "piper_guard",
                                   !.text = sample_text,
                                   !.voice_id = StrReplace(data.voice_id,
                                                           << "piper:" >>, << >>),
                                   !.speed = SpeedUnit ] ]
  /\ UNCHANGED << inbox, swp, fs, tmp, now, usedTokens, env, ticks, cleanups,
                  norm, voice_speed, setupbox >>

\* preview_voice after the call
PreviewRespond(t) ==
  /\ hnd[t].pc = "preview_after"
  /\ hnd' = [ hnd EXCEPT ![t] =
               IF hnd[t].audio_path # NoPath
               THEN [ hnd[t] EXCEPT !.pc = "done",
                                    !.response = Success(hnd[t].audio_path) ]
               ELSE [ hnd[t] EXCEPT !.pc = "done",
                        !.response =
                           Failure("Failed to generate voice preview") ] ]
  /\ UNCHANGED << inbox, swp, fs, tmp, now, usedTokens, env, ticks, cleanups,
                  norm, voice_speed, setupbox, previewbox >>

PreviewStep(t) ==
  \/ PreviewReceive(t)
  \/ PreviewRespond(t)

\* ------------------------------------------------------------------------
\* /cleanup: one sweep per request
\* ------------------------------------------------------------------------
NoSweepResponse == [ success |-> FALSE, removed |-> 0 - 1, error |-> "pending" ]

IdleSweep ==
  [ pc |-> "idle", cutoff_time |-> 0, removed_count |-> 0, listing |-> { },
    filename |-> << >>, response |-> NoSweepResponse,
    started_at |-> 0, deleted |-> { }, followed |-> { } ]

\* os.listdir(AUDIO_DIR)
ListDir == { OsPathBasename(path) : path \in DOMAIN fs }

\* a variant that also takes a file exactly at the cutoff
OlderOrEqual(mtime, cutoff_time) == mtime <= cutoff_time

\* os.path.getmtime(file_path) < cutoff_time
OlderThan(mtime, cutoff_time) == mtime < cutoff_time

\* the test that AUDIO_DIR exists (the module creates it when it is loaded
\* and nothing removes it), the cutoff from time.time(), and a zero count.
\* started_at, deleted and followed are history: the time the sweep began,
\* the names it removed, and the sweeps that had already returned success
\* when it began, no time having passed since they began.
SweepStart(s) ==
  /\ swp[s].pc = "idle"
  /\ \A r \in Sweepers : r < s => swp[r].pc # "idle"
  /\ cleanups > 0
  /\ cleanups' = cleanups - 1
  /\ LET cutoff == now - RetentionSeconds
     IN swp' = [ swp EXCEPT ![s] =
                   [ swp[s] EXCEPT
                       !.pc = "listdir", !.cutoff_time = cutoff,
                       !.removed_count = 0,
                       !.started_at = now,
                       !.followed = { r \in Sweepers :
                                        /\ swp[r].pc = "done"
                                        /\ swp[r].response.success
                                        /\ swp[r].started_at = now } ] ]
  /\ UNCHANGED << inbox, hnd, fs, tmp, now, usedTokens, env, ticks,
                  norm, voice_speed, setupbox, previewbox >>

\* os.listdir(AUDIO_DIR), a read of the directory later than that of the
\* clock
SweepListDir(s) ==
  /\ swp[s].pc = "listdir"
  /\ swp' = [ swp EXCEPT ![s] = [ swp[s] EXCEPT !.pc = "loop",
                                                 !.listing = ListDir ] ]
  /\ UNCHANGED << inbox, hnd, fs, tmp, now, usedTokens, env, ticks, cleanups,
                  norm, voice_speed, setupbox, previewbox >>

\* the next name of the for loop and its os.path.isfile test
SweepIsFile(s) ==
  /\ swp[s].pc = "loop"
  /\ \E name \in swp[s].listing :
       swp' = [ swp EXCEPT ![s] =
                  [ swp[s] EXCEPT
                      !.listing = swp[s].listing \ { name },
                      !.filename = name,
                      !.pc = IF IsFile(OsPathJoin(AUDIO_DIR, name))
                             THEN "getmtime" ELSE "loop" ] ]
  /\ UNCHANGED << inbox, hnd, fs, tmp, now, usedTokens, env, ticks, cleanups,
                  norm, voice_speed, setupbox, previewbox >>

\* os.path.getmtime: FileNotFoundError when the file is gone, which leaves
\* the loop for the handler's outer except clause
SweepGetMtime(s) ==
  /\ swp[s].pc = "getmtime"
  /\ LET file_path == OsPathJoin(AUDIO_DIR, swp[s].filename)
     IN swp' = [ swp EXCEPT ![s] =
                   IF ~Exists(file_path)
                   THEN [ swp[s] EXCEPT
                            !.pc = "done", !.listing = { },
                            !.filename = << >>,
                            !.response = [ success |-> FALSE, removed |-> 0 - 1,
                                           error |-> "FileNotFoundError" ] ]
                   ELSE IF OlderThan(fs[file_path].mtime, swp[s].cutoff_time)
                   THEN [ swp[s] EXCEPT !.pc = "remove" ]
                   ELSE [ swp[s] EXCEPT !.pc = "loop" ] ]
  /\ UNCHANGED << inbox, hnd, fs, tmp, now, usedTokens, env, ticks, cleanups,
                  norm, voice_speed, setupbox, previewbox >>

\* os.remove inside try/except OSError: a missing file is logged and skipped
SweepRemove(s) ==
  /\ swp[s].pc = "remove"
  /\ LET file_path == OsPathJoin(AUDIO_DIR, swp[s].filename)
     IN IF Exists(file_path)
        THEN /\ fs' = RemoveFile(fs, file_path)
             /\ swp' = [ swp EXCEPT ![s] =
                           [ swp[s] EXCEPT
                               !.pc = "loop",
                               !.removed_count = swp[s].removed_count + 1,
                               !.deleted = swp[s].deleted
                                             \cup { swp[s].filename } ] ]
        ELSE /\ swp' = [ swp EXCEPT ![s].pc = "loop" ]
             /\ UNCHANGED fs
  /\ UNCHANGED << inbox, hnd, tmp, now, usedTokens, env, ticks, cleanups,
                  norm, voice_speed, setupbox, previewbox >>

\* the loop is over (the locals end with the call): jsonify({'success': True, 'removed': removed_count})
SweepFinish(s) ==
  /\ swp[s].pc = "loop"
  /\ swp[s].listing = { }
  /\ swp' = [ swp EXCEPT ![s] =
                [ swp[s] EXCEPT
                    !.pc = "done", !.filename = << >>,
                    !.response = [ success |-> TRUE,
                                   removed |-> swp[s].removed_count,
                                   error |-> "" ] ] ]
  /\ UNCHANGED << inbox, hnd, fs, tmp, now, usedTokens, env, ticks, cleanups,
                  norm, voice_speed, setupbox, previewbox >>

SweepStep(s) ==
  \/ SweepStart(s)
  \/ SweepListDir(s)
  \/ SweepIsFile(s)
  \/ SweepGetMtime(s)
  \/ SweepRemove(s)
  \/ SweepFinish(s)

\* time passes
TickSeconds == 2 * RetentionSeconds

Tick ==
  /\ ticks < MaxTicks
  /\ ticks' = ticks + 1
  /\ now' = now + TickSeconds
  /\ UNCHANGED << inbox, hnd, swp, fs, tmp, usedTokens, env, cleanups,
                  norm, voice_speed, setupbox, previewbox >>

\* ------------------------------------------------------------------------
\* A caller that normalizes a text and then normalizes the result
\* ------------------------------------------------------------------------
IdleNorm == [ pc |-> "idle", text |-> << >>, once |-> << >>, twice |-> << >> ]

NormalizeOnce ==
  /\ norm.pc = "raw"
  /\ norm' = [ norm EXCEPT !.pc = "once",
                           !.once = clean_text_for_speech(norm.text) ]
  /\ UNCHANGED << inbox, hnd, swp, fs, tmp, now, usedTokens, env, ticks,
                  cleanups, voice_speed, setupbox, previewbox >>

NormalizeAgain ==
  /\ norm.pc = "once"
  /\ norm' = [ norm EXCEPT !.pc = "twice",
                           !.twice = clean_text_for_speech(norm.once) ]
  /\ UNCHANGED << inbox, hnd, swp, fs, tmp, now, usedTokens, env, ticks,
                  cleanups, voice_speed, setupbox, previewbox >>

\* ------------------------------------------------------------------------
\* Initial states and specifications
\* ------------------------------------------------------------------------
StartTime == 2 * RetentionSeconds

\* what AUDIO_DIR holds when the server starts: an artifact older than the
\* retention, one exactly as old as the retention, and a sub-directory
InitialFiles ==
  LET old  == OsPathJoin(AUDIO_DIR, OutputFilename("u1"))
      edge == OsPathJoin(AUDIO_DIR, OutputFilename("u2"))
      sub  == OsPathJoin(AUDIO_DIR, << "keep" >>)
  IN [ q \in { old, edge, sub } |->
         IF q = old THEN [ kind |-> "file", mtime |-> 0, data |-> "wav" ]
         ELSE IF q = edge
         THEN [ kind |-> "file", mtime |-> StartTime - RetentionSeconds,
                data |-> "wav" ]
         ELSE [ kind |-> "dir", mtime |-> 0, data |-> "" ] ]

InitServer ==
  /\ hnd = [ t \in Threads |-> IdleHandler ]
  /\ swp = [ s \in Sweepers |-> IdleSweep ]
  /\ fs = InitialFiles
  /\ tmp = << >>
  /\ now = StartTime
  /\ usedTokens = { "u1", "u2" }
  /\ env \in [ piper : BOOLEAN, ffmpeg : BOOLEAN ]
  /\ ticks = 0
  /\ norm = IdleNorm
  /\ voice_speed = SpeedUnit

\* one /generate_speech request with any input, no janitor
InitSynth ==
  /\ InitServer
  /\ inbox \in { << r >> : r \in Requests }
  /\ cleanups = 0
  /\ setupbox = << >>
  /\ previewbox = << >>

NextSynth == \E t \in Threads : HandlerStep(t)

SpecSynth == InitSynth /\ [][NextSynth]_vars

\* /cleanup requests alone, served concurrently, and the clock
InitJanitor ==
  /\ InitServer
  /\ inbox = << >>
  /\ cleanups = MaxSweeps
  /\ setupbox = << >>
  /\ previewbox = << >>

NextJanitor ==
  \/ \E s \in Sweepers : SweepStep(s)
  \/ Tick

SpecJanitor == InitJanitor /\ [][NextJanitor]_vars

\* one well-formed /generate_speech request, one /cleanup request, the clock
Init ==
  /\ InitServer
  /\ inbox \in { << r >> : r \in PlainRequests }
  /\ cleanups = 1
  /\ setupbox = << >>
  /\ previewbox = << >>

Next ==
  \/ \E t \in Threads : HandlerStep(t)
  \/ \E s \in Sweepers : SweepStep(s)
  \/ Tick

Spec == Init /\ [][Next]_vars

\* two synthesize calls served concurrently: two well-formed
\* /generate_speech requests, or one and a /preview_voice request
InitPair ==
  /\ InitServer
  /\ \/ inbox \in PlainPairs /\ previewbox = << >>
     \/ /\ inbox \in { << pair[1] >> : pair \in PlainPairs }
        /\ previewbox \in { << p >> : p \in PreviewRequests }
  /\ cleanups = 0
  /\ setupbox = << >>

NextPair == \E t \in Threads : HandlerStep(t) \/ PreviewStep(t)

SpecPair == InitPair /\ [][NextPair]_vars

\* two /setup requests served concurrently
InitSetup ==
  /\ InitServer
  /\ inbox = << >>
  /\ cleanups = 0
  /\ setupbox \in { << r1, r2 >> : r1 \in SetupRequests, r2 \in SetupRequests }
  /\ previewbox = << >>

NextSetup == \E t \in Threads : SetupStep(t)

SpecSetup == InitSetup /\ [][NextSetup]_vars

\* clean_text_for_speech alone, on every text of NormTexts
InitNorm ==
  /\ hnd = [ t \in Threads |-> IdleHandler ]
  /\ swp = [ s \in Sweepers |-> IdleSweep ]
  /\ fs = InitialFiles
  /\ tmp = << >>
  /\ now = StartTime
  /\ usedTokens = { "u1", "u2" }
  /\ env = [ piper |-> TRUE, ffmpeg |-> TRUE ]
  /\ ticks = 0
  /\ voice_speed = SpeedUnit
  /\ inbox = << >>
  /\ cleanups = 0
  /\ setupbox = << >>
  /\ previewbox = << >>
  /\ norm \in { [ IdleNorm EXCEPT !.pc = "raw", !.text = x ] : x \in NormTexts }

NextNorm ==
  \/ NormalizeOnce
  \/ NormalizeAgain

SpecNorm == InitNorm /\ [][NextNorm]_vars

\* ------------------------------------------------------------------------
\* Properties
\* ------------------------------------------------------------------------
\* generate_speech_piper has returned to the handler of thread t
Returned(t) ==
  hnd[t].pc \in { "after_piper", "setup_after", "preview_after", "remove_wav",
                  "done" }

\* C1: when generate_speech_piper has returned, the temporary text file it
\* created no longer exists, whatever the exit path.
C1_TempFileGoneOnReturn ==
  \A t \in Threads : Returned(t) => t \notin DOMAIN tmp

\* C2: with a speed of zero or below, generate_speech_piper never starts the
\* engine and returns a failure.
C2_NoSpawnForNonPositiveSpeed ==
  \A t \in Threads :
    hnd[t].speed <= 0 =>
      /\ ~hnd[t].spawned
      /\ hnd[t].pc # "unlink_temp"
      /\ Returned(t) => hnd[t].audio_path = NoPath

\* C3: when the normalized text is empty or the voice id is absent, the
\* engine is never started and the call returns a failure.
C3_NoSpawnForEmptyNormalizedText ==
  \A t \in Threads :
    (hnd[t].pc # "idle" /\
       (clean_text_for_speech(hnd[t].text) = << >> \/ hnd[t].voice_id = << >>)) =>
      /\ ~hnd[t].spawned
      /\ Returned(t) => hnd[t].audio_path = NoPath

\* C4: the engine is started only when the voice model file and the engine
\* executable exist; when either is absent the call returns a failure and
\* nothing is started.
C4_SpawnOnlyAfterChecks ==
  \A t \in Threads :
    LET present == /\ VoiceModelPath(hnd[t].voice_id) \in ExistingVoicePaths
                   /\ env.piper
    IN /\ (hnd[t].spawned \/ hnd[t].pc = "run_piper") => present
       /\ (~present /\ Returned(t)) =>
            ~hnd[t].spawned /\ hnd[t].audio_path = NoPath

\* a call that got past the entry test with a missing voice file has ended
\* in a failure response, no engine started
C4_Witness ==
  \E t \in Threads :
    /\ hnd[t].pc = "done"
    /\ hnd[t].voice_id = << "missing.onnx" >>
    /\ hnd[t].token # ""
    /\ ~hnd[t].spawned
    /\ ~hnd[t].response.success

\* C5: generate_speech_piper returns a path only if the engine ended with
\* exit code 0 and the output file was there when tested; a nonzero exit
\* code, or exit code 0 without an output file, yields a failure.
C5_SuccessOnlyWithOutput ==
  \A t \in Threads :
    hnd[t].pc = "after_piper" =>
      /\ hnd[t].audio_path # NoPath =>
           /\ hnd[t].spawned
           /\ hnd[t].returncode = 0
           /\ Exists(OutputPath(hnd[t].token))
           /\ hnd[t].audio_path = StaticUrl(OutputFilename(hnd[t].token))
      /\ (hnd[t].spawned /\
            (hnd[t].returncode # 0 \/ ~Exists(OutputPath(hnd[t].token)))) =>
           hnd[t].audio_path = NoPath

\* the engine ended with exit code 0 without writing its output, and the
\* call has returned a failure
C5_Witness ==
  \E t \in Threads :
    /\ hnd[t].pc = "after_piper"
    /\ hnd[t].spawned
    /\ hnd[t].returncode = 0
    /\ ~Exists(OutputPath(hnd[t].token))
    /\ hnd[t].audio_path = NoPath

\* an artifact name: fixed prefix, a uuid token, one of the fixed extensions
ArtifactNames ==
  { << "piper_speech_", token, ".", ext >> :
      token \in Tokens, ext \in { "wav", "mp3", "ogg" } }

\* C6: every audio file written under AUDIO_DIR and every path returned to
\* the client is named by a random token with the fixed prefix and a fixed
\* extension, whatever the request holds.
C6_ArtifactNamesFromTokenOnly ==
  /\ \A path \in DOMAIN fs :
       fs[path].kind = "file" =>
         \E name \in ArtifactNames : path = OsPathJoin(AUDIO_DIR, name)
  /\ \A t \in Threads :
       hnd[t].response.success =>
         \E name \in ArtifactNames : hnd[t].response.audioPath = StaticUrl(name)

\* C7: a sweep that meets a file another actor has just deleted still ends
\* with a success result, and a request whose original WAV was already
\* deleted when the transcode cleanup removes it still succeeds.
C7_FileAlreadyGoneTolerated ==
  /\ \A s \in Sweepers : swp[s].pc = "done" => swp[s].response.success
  /\ \A t \in Threads :
       (hnd[t].pc = "done" /\ hnd[t].transcode = "ok") =>
         hnd[t].response.success

\* the files AUDIO_DIR held at the start that are no longer there
Missing == { OsPathBasename(path) : path \in DOMAIN InitialFiles \ DOMAIN fs }

\* C8: a sweep removes only regular files whose modification time is older
\* than its start minus 3600 seconds, every other file stays in place, the
\* count it reports is the number of files it removed, and a sweep run right
\* after a finished one, no time having passed, removes nothing.
C8_SweepRemovesOnlyOldFiles ==
  /\ \A s \in Sweepers :
       /\ \A name \in swp[s].deleted :
            LET was == InitialFiles[OsPathJoin(AUDIO_DIR, name)]
            IN /\ was.kind = "file"
               /\ was.mtime < swp[s].started_at - RetentionSeconds
               /\ name \in Missing
       /\ (swp[s].pc = "done" /\ swp[s].response.success) =>
            swp[s].response.removed = Cardinality(swp[s].deleted)
       /\ swp[s].followed # { } => swp[s].removed_count = 0
  /\ \A name \in Missing : \E s \in Sweepers : name \in swp[s].deleted
  /\ \A s, r \in Sweepers : s # r => swp[s].deleted \cap swp[r].deleted = { }

\* a sweep has removed the one old file and left the file that is exactly
\* as old as the retention, and a second sweep run right after it has ended
\* with a count of 0
C8_Witness ==
  \E s, r \in Sweepers :
    /\ swp[s].pc = "done" /\ swp[s].response.success
    /\ swp[s].response.removed = 1
    /\ swp[r].pc = "done" /\ swp[r].response.success
    /\ s \in swp[r].followed
    /\ swp[r].response.removed = 0
    /\ OsPathJoin(AUDIO_DIR, OutputFilename("u2")) \in DOMAIN fs

\* C9: when transcoding fails, convert_audio_format returns None, the
\* original WAV is still on disk as the engine wrote it, and the response
\* carries the WAV path.
C9_FailedTranscodeKeepsWav ==
  \A t \in Threads :
    (hnd[t].pc = "done" /\
       hnd[t].transcode \in { "unavailable", "nonzero", "raised" }) =>
      /\ hnd[t].converted = NoPath
      /\ Exists(OutputPath(hnd[t].token))
      /\ fs[OutputPath(hnd[t].token)] =
           [ kind |-> "file", mtime |-> now, data |-> "wav" ]
      /\ hnd[t].response = Success(StaticUrl(OutputFilename(hnd[t].token)))

\* the transcoder ended nonzero and the request has been answered
C9_Witness ==
  \E t \in Threads :
    /\ hnd[t].pc = "done"
    /\ hnd[t].transcode = "nonzero"
    /\ hnd[t].output_format = << "mp3" >>
    /\ hnd[t].response.success

\* the files of AUDIO_DIR that carry the token in their name
ArtifactsOf(token) ==
  { path \in DOMAIN fs : \E k \in 1..Len(path) : path[k] = token }

\* C10: after a successful transcoding (convert_audio_format returned a
\* path) the original WAV is deleted, the returned path carries the requested
\* extension, and the transcoded file is the one artifact left of that
\* synthesis.
C10_TranscodeReplacesWav ==
  \A t \in Threads :
    (hnd[t].pc = "done" /\ hnd[t].transcode = "ok") =>
      LET name == << "piper_speech_", hnd[t].token, "." >>
                    \o hnd[t].output_format
      IN /\ ~Exists(OutputPath(hnd[t].token))
         /\ hnd[t].response = Success(StaticUrl(name))
         /\ ArtifactsOf(hnd[t].token) = { OsPathJoin(AUDIO_DIR, name) }
         /\ fs[OsPathJoin(AUDIO_DIR, name)].data = Codec(hnd[t].output_format)

\* C11: clean_text_for_speech is idempotent: normalizing a text that is
\* already a result of clean_text_for_speech returns it unchanged
C11_NormalizeIdempotent ==
  norm.pc = "twice" => norm.twice = norm.once

\* C12: for every speed above zero the value handed to the engine after
\* --length-scale is (1.0 / speed) * 1.1; at speed 1.0 it is 1.1.  With the
\* speed s in tenths that value is 11 / s, and the fraction n / d of the
\* command line equals it exactly when n * s = 11 * d.
C12_LengthScaleBaseAdjustment ==
  \A t \in Threads :
    hnd[t].spawned /\ hnd[t].speed > 0 =>
      LET scale == hnd[t].command[7]
      IN /\ hnd[t].command[6] = "--length-scale"
         /\ scale[1] * hnd[t].speed = 11 * scale[2]

\* the files a synthesize call writes: the --output_file of its command line
\* and, once transcoded, the path convert_audio_format returned, with
\* every path its engine and transcoder wrote to
WrittenPaths(t) ==
  ( IF hnd[t].command = << >> THEN { } ELSE { hnd[t].command[5] } )
    \cup ( IF hnd[t].converted = NoPath THEN { } ELSE { hnd[t].converted } )
    \cup hnd[t].written

\* C13: any two synthesize calls, concurrent ones for the same voice and
\* different texts included, write to distinct files: no artifact and no
\* transcoded replacement of one call is a file of the other, and two
\* successful responses never name the same artifact.
C13_DistinctArtifacts ==
  \A t \in Threads : \A u \in Threads :
    t # u =>
      /\ WrittenPaths(t) \cap WrittenPaths(u) = { }
      /\ ( hnd[t].response.success /\ hnd[u].response.success
            => hnd[t].response.audioPath # hnd[u].response.audioPath )

\* both calls are in flight at once, each having just transcoded its WAV to
\* the same format
C13_Witness ==
  /\ hnd[1].pc = "remove_wav" /\ hnd[2].pc = "remove_wav"
  /\ hnd[1].text # hnd[2].text
  /\ hnd[1].voice_id = hnd[2].voice_id
  /\ hnd[1].output_format = hnd[2].output_format
  /\ hnd[1].converted # hnd[2].converted

\* C14: under any interleaving of two concurrent /setup requests, the speed
\* a request hands to generate_speech_piper and the speed its response
\* echoes are the speed that request supplied, never the value another
\* request stored in voice_speed.
C14_SetupUsesOwnSpeed ==
  \A t \in Threads :
    ( /\ hnd[t].route = "setup"
      /\ hnd[t].sent_speed.given
      /\ hnd[t].sent_speed.numeric )
    => /\ hnd[t].called => hnd[t].speed = hnd[t].sent_speed.value
       /\ ( hnd[t].pc = "done" /\ hnd[t].response.success )
            => hnd[t].echoed = hnd[t].sent_speed.value

====
